---- MODULE Spec2Model ----
(***************************************************************************)
(* Model of diffusion.py: the explicit finite-difference solver of the     *)
(* one-dimensional heat equation (heat, the time-march driver, and step,   *)
(* the stencil).                                                           *)
(*                                                                         *)
(* Numbers are Python floats, i.e. IEEE-754 binary64 values, and every     *)
(* arithmetic operation of the source rounds to nearest, ties to even.     *)
(* A float is modelled exactly as sign, 53-bit significand and exponent;   *)
(* the significand is a natural number held in limbs of 15 bits, since it  *)
(* does not fit the integers of the model checker.  Exponent overflow and  *)
(* subnormal numbers are not modelled: the values of the model stay far    *)
(* from both.  The two zeros compare equal in Python and are one value     *)
(* here.  A Python int of the inputs is the float of the same value, and   *)
(* int / int is the correctly rounded quotient, as in Python.              *)
(***************************************************************************)
EXTENDS Integers, Sequences, FiniteSets, TLC

(***************************************************************************)
(* Natural numbers of any size: little-endian sequences of limbs, without  *)
(* leading zero limbs; zero is the empty sequence.                         *)
(***************************************************************************)
LimbBits == 15

Base == 2^LimbBits

BLimb(a, i) == IF 1 <= i /\ i <= Len(a) THEN a[i] ELSE 0

\* a without its leading zero limbs
BTrim(a) ==
    SubSeq(a, 1, CHOOSE i \in 0..Len(a) :
                     /\ i = 0 \/ a[i] # 0
                     /\ \A j \in (i + 1)..Len(a) : a[j] = 0)

RECURSIVE BFromInt(_)
BFromInt(n) == IF n = 0 THEN <<>> ELSE <<n % Base>> \o BFromInt(n \div Base)

\* the carry into limb i of a sum whose limbs, before the carries, are s: a
\* limb below i overflows, and every limb between the two is full
BCarry(s, i) ==
    IF \E j \in 1..(i - 1) :
          /\ s[j] >= Base
          /\ \A k \in (j + 1)..(i - 1) : s[k] = Base - 1
    THEN 1 ELSE 0

BAdd(a, b) ==
    IF a = <<>> THEN b
    ELSE IF b = <<>> THEN a
    ELSE LET n == (IF Len(a) > Len(b) THEN Len(a) ELSE Len(b)) + 1
             s == [j \in 1..n |-> BLimb(a, j) + BLimb(b, j)]
         IN  BTrim([i \in 1..n |-> (s[i] + BCarry(s, i)) % Base])

\* the borrow from limb i of a - b: a limb of a below i is less than that of
\* b, and the limbs between the two are equal
BBorrow(a, b, i) ==
    IF \E j \in 1..(i - 1) :
          /\ a[j] < BLimb(b, j)
          /\ \A k \in (j + 1)..(i - 1) : a[k] = BLimb(b, k)
    THEN 1 ELSE 0

\* a - b, for a >= b
BSub(a, b) ==
    IF b = <<>> THEN a
    ELSE BTrim([i \in 1..Len(a) |->
                   (a[i] - BLimb(b, i) - BBorrow(a, b, i) + Base) % Base])

\* the sign of a - b: decided by the number of limbs, then by the highest
\* limb in which they differ
BCmp(a, b) ==
    IF Len(a) > Len(b) THEN 1
    ELSE IF Len(a) < Len(b) THEN -1
    ELSE LET df == {i \in 1..Len(a) : a[i] # b[i]}
         IN  IF df = {} THEN 0
             ELSE LET i == CHOOSE i \in df : \A j \in df : j <= i
                  IN  IF a[i] > b[i] THEN 1 ELSE -1

BShiftLimbs(a, n) == IF a = <<>> THEN <<>> ELSE [i \in 1..n |-> 0] \o a

\* a * k, for a limb k: the low halves of the limb products plus their high
\* halves one limb up
BMulSmall(a, k) ==
    BAdd(BTrim([i \in 1..Len(a) |-> (a[i] * k) % Base]),
         BTrim(<<0>> \o [i \in 1..Len(a) |-> (a[i] * k) \div Base]))

\* a * (the limbs lo..hi of b, as a number)
RECURSIVE BMulAt(_, _, _, _)
BMulAt(a, b, lo, hi) ==
    IF lo = hi THEN BMulSmall(a, b[lo])
    ELSE BAdd(BMulAt(a, b, lo, (lo + hi) \div 2),
              BShiftLimbs(BMulAt(a, b, ((lo + hi) \div 2) + 1, hi),
                          ((lo + hi) \div 2) + 1 - lo))

BMul(a, b) == IF b = <<>> THEN <<>> ELSE BMulAt(a, b, 1, Len(b))

\* a * 2^k
BShl(a, k) ==
    BShiftLimbs(BTrim([i \in 1..(Len(a) + 1) |->
                          ((BLimb(a, i) * 2^(k % LimbBits)) % Base)
                          + (BLimb(a, i - 1) \div 2^(LimbBits - (k % LimbBits)))]),
                k \div LimbBits)

BShrBits(a, r) ==
    BTrim([i \in 1..Len(a) |->
              (a[i] \div 2^r) + (BLimb(a, i + 1) % 2^r) * 2^(LimbBits - r)])

\* a \div 2^k
BShr(a, k) ==
    IF k \div LimbBits >= Len(a) THEN <<>>
    ELSE BShrBits(SubSeq(a, (k \div LimbBits) + 1, Len(a)), k % LimbBits)

\* the low k bits of a are all zero
BLowZero(a, k) ==
    /\ \A i \in 1..(k \div LimbBits) : BLimb(a, i) = 0
    /\ BLimb(a, (k \div LimbBits) + 1) % 2^(k % LimbBits) = 0

\* the number of bits of a limb
IntBitLen(n) == CHOOSE k \in 0..LimbBits : n < 2^k /\ (k = 0 \/ n >= 2^(k - 1))

BBitLen(a) ==
    IF a = <<>> THEN 0 ELSE LimbBits * (Len(a) - 1) + IntBitLen(a[Len(a)])

\* bit k of a, bit 0 the lowest
BBit(a, k) == (BLimb(a, (k \div LimbBits) + 1) \div 2^(k % LimbBits)) % 2

BIsOdd(a) == a # <<>> /\ a[1] % 2 = 1

\* the largest digit q with q * d <= r, for r < Base * d: counted down from
\* the estimate acc, which is not below it
RECURSIVE BQDigit(_, _, _)
BQDigit(r, d, acc) ==
    IF BCmp(BMulSmall(d, acc), r) <= 0 THEN acc
    ELSE BQDigit(r, d, acc - 1)

\* the estimate of that digit from the two leading limbs of r and the leading
\* limb of d (Knuth's algorithm D): never too small, and at most 2 too large
\* when the leading limb of d is at least Base / 2
BQEstimate(r, d) ==
    LET top == BLimb(r, Len(d) + 1) * Base + BLimb(r, Len(d))
        est == top \div d[Len(d)]
    IN  IF est > Base - 1 THEN Base - 1 ELSE est

\* long division, one limb of n per step from limb i down; q the quotient
\* limbs found so far, r the remainder so far: <<quotient limbs (untrimmed),
\* remainder>>
RECURSIVE BDivAt(_, _, _, _, _)
BDivAt(n, d, i, q, r) ==
    IF i = 0 THEN <<q, r>>
    ELSE LET cur == BTrim(<<n[i]>> \o r)
             qd  == IF BCmp(cur, d) < 0 THEN 0
                    ELSE BQDigit(cur, d, BQEstimate(cur, d))
         IN  IF qd = 0 THEN BDivAt(n, d, i - 1, <<0>> \o q, cur)
             ELSE BDivAt(n, d, i - 1, <<qd>> \o q, BSub(cur, BMulSmall(d, qd)))

\* <<n \div d, n % d>>, for n of at least as many limbs as d, and d with a
\* leading limb of at least Base / 2.  The leading Len(d) - 1 limbs of n are
\* below d and are the first remainder.
BDivNorm(n, d) ==
    BDivAt(n, d, Len(n) - Len(d) + 1, <<>>,
           BTrim(SubSeq(n, Len(n) - Len(d) + 2, Len(n))))

\* <<n \div d, n % d>>, for d nonzero and n >= d; n and d are first scaled
\* by 2^sh to make the leading limb of d at least Base / 2
BDivMod(n, d) ==
    LET sh == LimbBits - IntBitLen(d[Len(d)])
    IN  IF sh = 0 THEN LET x == BDivNorm(n, d) IN <<BTrim(x[1]), x[2]>>
        ELSE LET x == BDivNorm(BShl(n, sh), BShl(d, sh))
             IN  <<BTrim(x[1]), BShr(x[2], sh)>>

(***************************************************************************)
(* Python floats.  [s, m, e] is (-1)^s * m * 2^e with m of exactly Prec    *)
(* bits, or zero.                                                          *)
(***************************************************************************)
Prec == 53

FZero == [s |-> 0, m |-> <<>>, e |-> 0]

IsZero(a) == a.m = <<>>

\* round (-1)^s * m * 2^e to nearest, ties to even; sticky: a nonzero part
\* below the lowest bit of m was dropped already
FRound(s, m, e, sticky) ==
    IF m = <<>> THEN FZero
    ELSE LET n == BBitLen(m)
         IN  IF n <= Prec
             THEN [s |-> s, m |-> BShl(m, Prec - n), e |-> e - (Prec - n)]
             ELSE LET k    == n - Prec
                      q    == BShr(m, k)
                      half == BBit(m, k - 1) = 1
                      rest == sticky \/ ~BLowZero(m, k - 1)
                      up   == half /\ (rest \/ BIsOdd(q))
                      q2   == IF up THEN BAdd(q, <<1>>) ELSE q
                  IN  IF BBitLen(q2) > Prec
                      THEN [s |-> s, m |-> BShr(q2, 1), e |-> e + k + 1]
                      ELSE [s |-> s, m |-> q2, e |-> e + k]

\* int -> float
FFromInt(n) ==
    IF n < 0 THEN FRound(1, BFromInt(-n), 0, FALSE)
    ELSE FRound(0, BFromInt(n), 0, FALSE)

FNeg(a) == IF IsZero(a) THEN a ELSE [a EXCEPT !.s = 1 - a.s]

\* a * b
FMul(a, b) ==
    IF IsZero(a) \/ IsZero(b) THEN FZero
    ELSE FRound((a.s + b.s) % 2, BMul(a.m, b.m), a.e + b.e, FALSE)

\* a + b
FAdd(a, b) ==
    IF IsZero(a) THEN b
    ELSE IF IsZero(b) THEN a
    ELSE LET e  == IF a.e < b.e THEN a.e ELSE b.e
             ma == BShl(a.m, a.e - e)
             mb == BShl(b.m, b.e - e)
             c  == BCmp(ma, mb)
         IN  IF a.s = b.s THEN FRound(a.s, BAdd(ma, mb), e, FALSE)
             ELSE IF c = 0 THEN FZero
             ELSE IF c > 0 THEN FRound(a.s, BSub(ma, mb), e, FALSE)
             ELSE FRound(b.s, BSub(mb, ma), e, FALSE)

\* a - b
FSub(a, b) == FAdd(a, FNeg(b))

\* a / b, for b nonzero (Python raises ZeroDivisionError otherwise)
FDiv(a, b) ==
    IF ~IsZero(b) /\ IsZero(a) THEN FZero
    ELSE LET qr == BDivMod(BShl(a.m, Prec + 3), b.m)
         IN  FRound((a.s + b.s) % 2, qr[1], a.e - b.e - (Prec + 3), qr[2] # <<>>)

\* a > b: by the signs, then by the exponents, then by the significands,
\* which have the same number of bits
FGt(a, b) ==
    IF IsZero(a) THEN ~IsZero(b) /\ b.s = 1
    ELSE IF IsZero(b) THEN a.s = 0
    ELSE IF a.s # b.s THEN a.s = 0
    ELSE IF a.s = 0 THEN a.e > b.e \/ (a.e = b.e /\ BCmp(a.m, b.m) > 0)
    ELSE a.e < b.e \/ (a.e = b.e /\ BCmp(a.m, b.m) < 0)

FLe(a, b) == ~FGt(a, b)

\* the float a decimal literal n/d of the source denotes (n, d ints)
FDec(n, d) == FDiv(FFromInt(n), FFromInt(d))

\* the literals of diffusion.py
One == FFromInt(1)

Two == FFromInt(2)

Half == FDec(1, 2)

(***************************************************************************)
(* The inputs of the bounded model.                                        *)
(***************************************************************************)
MaxLen == 4

MaxNt == 3

\* Python's None, as a reference
None == 0

\* the node values of the profiles: 0 and 1, as in test_diffusion.py
NodeValues == {FZero, One}

\* profiles with nodes of both signs
MixedProfiles ==
    {<<FFromInt(-1), Two, FFromInt(-1)>>,
     <<One, FFromInt(-2), FDec(3, 10), FFromInt(3)>>}

\* profiles of 3 to MaxLen nodes
Profiles == UNION {[1..n -> NodeValues] : n \in 3..MaxLen} \cup MixedProfiles

\* arguments of a direct call of step
StepDx == {FDec(4, 100), FFromInt(1)}

StepDt == {FDec(2, 100), FFromInt(1)}

StepAlpha == {FDec(1, 100), FDec(1, 10), FDec(1, 2)}

\* arguments of a call of heat
HeatAlpha == {FDec(1, 100), FDec(125, 1000)}

HeatL == {1, 2}

HeatTmax == {FDec(1, 2), FFromInt(1)}

(***************************************************************************)
(* The calls of test_heat, test_diffusion.py lines 12-38: nt = 10,         *)
(* nx = 20, alpha = 0.01 and (L, tmax) = (1, 0.5), (2, 0.5), (1, 1).  The  *)
(* sines and exponentials are the floats CPython's math.sin and math.exp   *)
(* return, tabulated; the three initial profiles are the same floats.      *)
(***************************************************************************)
\* a positive float, by its significand limbs and exponent
F(m, e) == [s |-> 0, m |-> m, e |-> e]

\* line 21: [0] + [math.sin(math.pi * x / L) for x in xs][1:-1] + [0]
SineProfile ==
    <<FZero,
      F(<<22725, 32346, 17853, 168>>, -55),
      F(<<20393, 4257, 8065, 166>>, -54),
      F(<<31725, 7130, 22448, 243>>, -54),
      F(<<17443, 22130, 7813, 157>>, -53),
      F(<<15887, 15822, 11315, 188>>, -53),
      F(<<15844, 13660, 10309, 214>>, -53),
      F(<<2824, 14882, 14351, 234>>, -53),
      F(<<11800, 27068, 5454, 248>>, -53),
      F(<<17066, 21322, 4116, 255>>, -53),
      F(<<17066, 21322, 4116, 255>>, -53),
      F(<<11800, 27068, 5454, 248>>, -53),
      F(<<2825, 14882, 14351, 234>>, -53),
      F(<<15845, 13660, 10309, 214>>, -53),
      F(<<15889, 15822, 11315, 188>>, -53),
      F(<<17444, 22130, 7813, 157>>, -53),
      F(<<31728, 7130, 22448, 243>>, -54),
      F(<<20396, 4257, 8065, 166>>, -54),
      F(<<22730, 32346, 17853, 168>>, -55),
      FZero>>

\* lines 29-36: analytical_solution for L = 1, tmax = 0.5
AnalyticalL1T05 ==
    <<FZero,
      F(<<11570, 11409, 14070, 160>>, -55),
      F(<<22653, 13020, 7908, 158>>, -54),
      F(<<24461, 14816, 31181, 231>>, -54),
      F(<<30071, 3931, 21869, 149>>, -53),
      F(<<7902, 31585, 9058, 179>>, -53),
      F(<<12218, 30044, 32614, 203>>, -53),
      F(<<29155, 20284, 4906, 223>>, -53),
      F(<<27389, 12062, 7117, 236>>, -53),
      F(<<1513, 4181, 27567, 242>>, -53),
      F(<<1513, 4181, 27567, 242>>, -53),
      F(<<27389, 12062, 7117, 236>>, -53),
      F(<<29156, 20284, 4906, 223>>, -53),
      F(<<12219, 30044, 32614, 203>>, -53),
      F(<<7904, 31585, 9058, 179>>, -53),
      F(<<30072, 3931, 21869, 149>>, -53),
      F(<<24464, 14816, 31181, 231>>, -54),
      F(<<22655, 13020, 7908, 158>>, -54),
      F(<<11575, 11409, 14070, 160>>, -55),
      FZero>>

\* lines 29-36: analytical_solution for L = 2, tmax = 0.5
AnalyticalL2T05 ==
    <<FZero,
      F(<<15346, 25679, 15672, 166>>, -55),
      F(<<2979, 16412, 6807, 164>>, -54),
      F(<<14788, 16950, 22845, 240>>, -54),
      F(<<11620, 3583, 10175, 155>>, -53),
      F(<<1212, 30752, 1178, 186>>, -53),
      F(<<22401, 1437, 22507, 211>>, -53),
      F(<<6331, 325, 18464, 231>>, -53),
      F(<<14428, 19911, 4051, 245>>, -53),
      F(<<29804, 13471, 32685, 251>>, -53),
      F(<<29804, 13471, 32685, 251>>, -53),
      F(<<14428, 19911, 4051, 245>>, -53),
      F(<<6332, 325, 18464, 231>>, -53),
      F(<<22402, 1437, 22507, 211>>, -53),
      F(<<1214, 30752, 1178, 186>>, -53),
      F(<<11621, 3583, 10175, 155>>, -53),
      F(<<14791, 16950, 22845, 240>>, -54),
      F(<<2982, 16412, 6807, 164>>, -54),
      F(<<15351, 25679, 15672, 166>>, -55),
      FZero>>

\* lines 29-36: analytical_solution for L = 1, tmax = 1
AnalyticalL1T1 ==
    <<FZero,
      F(<<1052, 5776, 23091, 152>>, -55),
      F(<<14166, 16239, 20381, 150>>, -54),
      F(<<16741, 19855, 25659, 220>>, -54),
      F(<<22989, 2501, 15102, 142>>, -53),
      F(<<28506, 5451, 21111, 170>>, -53),
      F(<<26239, 1421, 5666, 194>>, -53),
      F(<<32218, 6395, 13272, 212>>, -53),
      F(<<15041, 9326, 27633, 224>>, -53),
      F(<<16007, 21992, 4863, 231>>, -53),
      F(<<16007, 21992, 4863, 231>>, -53),
      F(<<15041, 9326, 27633, 224>>, -53),
      F(<<32219, 6395, 13272, 212>>, -53),
      F(<<26240, 1421, 5666, 194>>, -53),
      F(<<28508, 5451, 21111, 170>>, -53),
      F(<<22989, 2501, 15102, 142>>, -53),
      F(<<16744, 19855, 25659, 220>>, -54),
      F(<<14169, 16239, 20381, 150>>, -54),
      F(<<1057, 5776, 23091, 152>>, -55),
      FZero>>

\* the arguments of heat in test_heat
TestHeatCalls ==
    {[p |-> SineProfile, nt |-> 10, alpha |-> FDec(1, 100), L |-> c[1], tmax |-> c[2]] :
        c \in {<<1, Half>>, <<2, Half>>, <<1, One>>}}

\* what test_heat compares the result with
Analytical(L, tmax) ==
    IF L = 2 THEN AnalyticalL2T05
    ELSE IF tmax = Half THEN AnalyticalL1T05
    ELSE AnalyticalL1T1

\* the calls of heat of the model
HeatCalls ==
    [p : Profiles, nt : 1..MaxNt, alpha : HeatAlpha, L : HeatL, tmax : HeatTmax]
    \cup TestHeatCalls

(***************************************************************************)
(* step, lines 25-38.                                                      *)
(***************************************************************************)
\* ratio, were dx not squared
ratio_dx_not_squared(dx, dt, alpha) == FDiv(FMul(alpha, dt), dx)

\* line 26: r = alpha * dt / dx ** 2; dx ** 2 is the correctly rounded square
ratio(dx, dt, alpha) == FDiv(FMul(alpha, dt), FMul(dx, dx))

\* a Gauss-Seidel sweep: nodes i..len(u)-2 (0-based) updated in place, each
\* reading the value its left neighbour was just given
RECURSIVE sweep_in_place(_, _, _)
sweep_in_place(u, r, j) ==
    IF j > Len(u) - 2 THEN u
    ELSE sweep_in_place(
             [u EXCEPT ![j + 1] =
                 FAdd(FAdd(FMul(r, u[j + 2]),
                           FMul(FSub(One, FMul(Two, r)), u[j + 1])),
                      FMul(r, u[j]))],
             r, j + 1)

\* interior, were the update not synchronous
interior_gauss_seidel(u, r) == SubSeq(sweep_in_place(u, r, 1), 2, Len(u) - 1)

\* interior, were the weight of the node itself 1 - r
interior_weight_1_minus_r(u, r) ==
    [j \in 1..(Len(u) - 2) |->
        FAdd(FAdd(FMul(r, u[j + 2]), FMul(FSub(One, r), u[j + 1])),
             FMul(r, u[j]))]

\* lines 33-36: the list comprehension over range(1, len(u) - 1); element j of
\* the result is the update of node i = j (0-based), u[j + 1] here
interior(u, r) ==
    [j \in 1..(Len(u) - 2) |->
        FAdd(FAdd(FMul(r, u[j + 2]), FMul(FSub(One, FMul(Two, r)), u[j + 1])),
             FMul(r, u[j]))]

\* new_profile, were the boundary nodes reset to zero
new_profile_zero_boundary(u, r) == <<FZero>> \o interior(u, r) \o <<FZero>>

\* new_profile, were the last node left out
new_profile_no_last(u, r) ==
    SubSeq(u, 1, IF Len(u) < 1 THEN Len(u) ELSE 1) \o interior(u, r)

\* lines 31-38: u[:1] + [...] + u[-1:]
new_profile(u, r) ==
    SubSeq(u, 1, IF Len(u) < 1 THEN Len(u) ELSE 1)
    \o interior(u, r)
    \o SubSeq(u, IF Len(u) < 1 THEN 1 ELSE Len(u), Len(u))

\* step, were the gate r >= 0.5
step_gate_ge(h, u, dx, dt, alpha) ==
    LET r == ratio(dx, dt, alpha)
    IN  IF ~FGt(Half, r)
        THEN [exc |-> "Exception", heap |-> h, ret |-> None]
        ELSE [exc |-> "",
              heap |-> Append(h, new_profile(h[u], r)),
              ret |-> Len(h) + 1]

\* step, were the list updated in place and returned
step_in_place(h, u, dx, dt, alpha) ==
    LET r == ratio(dx, dt, alpha)
    IN  IF FGt(r, Half)
        THEN [exc |-> "Exception", heap |-> h, ret |-> None]
        ELSE [exc |-> "",
              heap |-> [h EXCEPT ![u] = new_profile(h[u], r)],
              ret |-> u]

\* step(u, dx, dt, alpha) on the heap h of list objects, u a reference:
\* the exception raised ("" for none), the heap after, the reference returned
step(h, u, dx, dt, alpha) ==
    IF IsZero(FMul(dx, dx))
    THEN [exc |-> "ZeroDivisionError", heap |-> h, ret |-> None]
    ELSE LET r == ratio(dx, dt, alpha)
         IN  IF FGt(r, Half)
             THEN [exc |-> "Exception", heap |-> h, ret |-> None]
             ELSE [exc |-> "",
                   heap |-> Append(h, new_profile(h[u], r)),
                   ret |-> Len(h) + 1]

(***************************************************************************)
(* State: the caller's call (fn, args, the list it passes, heap[1], and    *)
(* the copy it saved), heat's frame (u, dx, dt, the loop index t, pc),     *)
(* and the outcome (ret, exc).  calls counts the invocations of step.      *)
(***************************************************************************)
VARIABLES fn, args, heap, saved, u, dx, dt, t, pc, ret, exc, calls

vars == <<fn, args, heap, saved, u, dx, dt, t, pc, ret, exc, calls>>

Init ==
    /\ fn = "none"
    /\ args = <<>>
    /\ heap = <<>>
    /\ saved = <<>>
    /\ u = None
    /\ dx = FZero
    /\ dt = FZero
    /\ t = 0
    /\ pc = "idle"
    /\ ret = None
    /\ exc = ""
    /\ calls = 0

\* the caller calls step(profile, dx, dt, alpha), lines 25-38
step_call ==
    /\ pc = "idle"
    /\ \E p \in Profiles, x \in StepDx, d \in StepDt, a \in StepAlpha :
          \E res \in {step(<<p>>, 1, x, d, a)} :
              /\ fn' = "step"
              /\ args' = [dx |-> x, dt |-> d, alpha |-> a]
              /\ saved' = p
              /\ heap' = res.heap
              /\ exc' = res.exc
              /\ ret' = res.ret
              /\ pc' = IF res.exc = "" THEN "returned" ELSE "raised"
    /\ calls' = 1
    /\ UNCHANGED <<u, dx, dt, t>>

\* heat's lines 16-17, were dt = tmax / nt
heat_enter_dt_by_nt ==
    /\ pc = "idle"
    /\ \E c \in HeatCalls :
          /\ fn' = "heat"
          /\ args' = [nt |-> c.nt, nx |-> Len(c.p), alpha |-> c.alpha, L |-> c.L,
                      tmax |-> c.tmax]
          /\ saved' = c.p
          /\ heap' = <<c.p>>
          /\ u' = 1
          /\ exc' = ""
          /\ pc' = "loop"
          /\ dx' = FDiv(FFromInt(c.L), FFromInt(Len(c.p) - 1))
          /\ dt' = FDiv(c.tmax, FFromInt(c.nt))
    /\ UNCHANGED <<t, ret, calls>>

\* the caller calls heat(profile, nt, nx, alpha, L, tmax), nx the length of
\* the profile: lines 16-17
heat_enter ==
    /\ pc = "idle"
    /\ \E c \in HeatCalls :
          /\ fn' = "heat"
          /\ args' = [nt |-> c.nt, nx |-> Len(c.p), alpha |-> c.alpha, L |-> c.L,
                      tmax |-> c.tmax]
          /\ saved' = c.p
          /\ heap' = <<c.p>>
          /\ u' = 1
          /\ IF Len(c.p) - 1 = 0 \/ c.nt - 1 = 0
             THEN /\ exc' = "ZeroDivisionError"
                  /\ pc' = "raised"
                  /\ dx' = IF Len(c.p) - 1 = 0 THEN FZero
                           ELSE FDiv(FFromInt(c.L), FFromInt(Len(c.p) - 1))
                  /\ dt' = FZero
             ELSE /\ exc' = ""
                  /\ pc' = "loop"
                  /\ dx' = FDiv(FFromInt(c.L), FFromInt(Len(c.p) - 1))
                  /\ dt' = FDiv(c.tmax, FFromInt(c.nt - 1))
    /\ UNCHANGED <<t, ret, calls>>

\* n_iter, were the loop for t in range(nt)
n_iter_nt(nt) == nt

\* line 19: the number of iterations of for t in range(nt - 1)
n_iter(nt) == nt - 1

\* heat's loop body, were the exception of step caught and the profile so far
\* returned
heat_iter_catch ==
    /\ pc = "loop"
    /\ t < args.nt - 1
    /\ \E res \in {step(heap, u, dx, dt, args.alpha)} :
           /\ heap' = res.heap
           /\ calls' = calls + 1
           /\ IF res.exc = ""
              THEN /\ u' = res.ret
                   /\ t' = t + 1
                   /\ UNCHANGED <<pc, exc, ret>>
              ELSE /\ pc' = "returned"
                   /\ ret' = u
                   /\ UNCHANGED <<u, t, exc>>
    /\ UNCHANGED <<fn, args, saved, dx, dt>>

\* lines 19-20: one iteration of for t in range(nt - 1): u = step(u, dx, dt, alpha)
heat_iter ==
    /\ pc = "loop"
    /\ t < n_iter(args.nt)
    /\ \E res \in {step(heap, u, dx, dt, args.alpha)} :
           /\ heap' = res.heap
           /\ calls' = calls + 1
           /\ IF res.exc = ""
              THEN /\ u' = res.ret
                   /\ t' = t + 1
                   /\ UNCHANGED <<pc, exc>>
              ELSE /\ pc' = "raised"
                   /\ exc' = res.exc
                   /\ UNCHANGED <<u, t>>
    /\ UNCHANGED <<fn, args, saved, dx, dt, ret>>

\* line 22: return u, once range(nt - 1) is exhausted
heat_return ==
    /\ pc = "loop"
    /\ t >= n_iter(args.nt)
    /\ ret' = u
    /\ pc' = "returned"
    /\ UNCHANGED <<fn, args, heap, saved, u, dx, dt, t, exc, calls>>

Next == step_call \/ heat_enter \/ heat_iter \/ heat_return

Spec == Init /\ [][Next]_vars

(***************************************************************************)
(* The properties.                                                         *)
(***************************************************************************)
\* the stability ratio of the call: of step's arguments, or of the dx and dt
\* heat derived
CallRatio ==
    IF fn = "step" THEN ratio(args.dx, args.dt, args.alpha)
    ELSE ratio(dx, dt, args.alpha)

\* the profile of test_step and test_step_instability, [0, 1, 1, 0]
TestProfile == <<FZero, One, One, FZero>>

\* C1: a step with r <= 0.5 returns a profile whose interior nodes i in
\* 1..N-2 are r*in[i+1] + (1-2r)*in[i] + r*in[i-1], all read from the
\* profile as it was before the call; and step([0,1,1,0], 0.04, 0.02, 0.01)
\* returns exactly [0, 0.875, 0.875, 0].
C1_Stencil ==
    \A r \in {IF fn = "step" THEN CallRatio ELSE FZero} :
      (fn = "step" /\ FLe(r, Half)) =>
        /\ pc = "returned"
        /\ \A i \in 1..(Len(saved) - 2) :
              heap[ret][i + 1] =
                 FAdd(FAdd(FMul(r, saved[i + 2]),
                           FMul(FSub(One, FMul(Two, r)), saved[i + 1])),
                      FMul(r, saved[i]))
        /\ (/\ saved = TestProfile
            /\ args = [dx |-> FDec(4, 100), dt |-> FDec(2, 100),
                       alpha |-> FDec(1, 100)])
           => heap[ret] = <<FZero, FDec(875, 1000), FDec(875, 1000), FZero>>

C1_Witness ==
    /\ fn = "step"
    /\ pc = "returned"
    /\ saved = TestProfile
    /\ args = [dx |-> FDec(4, 100), dt |-> FDec(2, 100), alpha |-> FDec(1, 100)]
    /\ CallRatio = FDec(125, 1000)
    /\ heap[ret] = <<FZero, FDec(875, 1000), FDec(875, 1000), FZero>>

\* C2: the first and the last node of the profile are those of the caller's
\* profile after a step that returns, and in every state of a heat run,
\* the returned profile included.
C2_BoundaryInvariance ==
    /\ (fn = "step" /\ pc = "returned") =>
          /\ heap[ret][1] = saved[1]
          /\ heap[ret][Len(heap[ret])] = saved[Len(saved)]
    /\ (fn = "heat" /\ pc \in {"loop", "returned"}) =>
          /\ heap[u][1] = saved[1]
          /\ heap[u][Len(heap[u])] = saved[Len(saved)]
    /\ (fn = "heat" /\ pc = "returned") =>
          /\ heap[ret][1] = saved[1]
          /\ heap[ret][Len(heap[ret])] = saved[Len(saved)]

C2_Witness ==
    /\ fn = "heat"
    /\ pc = "returned"
    /\ t = 2
    /\ saved[1] = One
    /\ saved[Len(saved)] = One
    /\ heap[ret] # saved
    /\ heap[ret][1] = One
    /\ heap[ret][Len(heap[ret])] = One

\* C3: step raises the instability exception, returning nothing and building
\* no profile, exactly when r > 0.5; with r <= 0.5, 0.5 itself included, it
\* returns a profile; step([0,1,1,0], 0.04, 0.02, 0.1), r = 1.25, raises.
C3_StabilityGate ==
    \A r \in {IF fn = "step" THEN CallRatio ELSE FZero} :
      (fn = "step") =>
        /\ FGt(r, Half) <=>
              (pc = "raised" /\ exc = "Exception" /\ ret = None /\ heap = <<saved>>)
        /\ FLe(r, Half) <=>
              (pc = "returned" /\ exc = "" /\ ret # None)
        /\ (args = [dx |-> FDec(4, 100), dt |-> FDec(2, 100), alpha |-> FDec(1, 10)])
           => (r = FDec(125, 100) /\ pc = "raised")

C3_Witness ==
    /\ fn = "step"
    /\ saved = TestProfile
    /\ args = [dx |-> FDec(4, 100), dt |-> FDec(2, 100), alpha |-> FDec(1, 10)]
    /\ CallRatio = FDec(125, 100)
    /\ pc = "raised"
    /\ exc = "Exception"
    /\ ret = None

\* the profile after n applications of step's update to p, each on the result
\* of the one before, with the same ratio r
RECURSIVE Applied(_, _, _)
Applied(p, r, n) == IF n = 0 THEN p ELSE new_profile(Applied(p, r, n - 1), r)

\* C4: with nt >= 2 and a stable ratio, heat holds dx = L/(nx-1) and
\* dt = tmax/(nt-1) throughout, after t iterations its profile u is step
\* applied t times in sequence to the caller's profile, and it returns after
\* exactly nt-1 applications, the profile u it then holds.
C4_TimeMarch ==
    \A r \in {IF fn = "heat" /\ args.nt >= 2 THEN CallRatio ELSE FZero} :
      (fn = "heat" /\ args.nt >= 2 /\ FLe(r, Half)) =>
        /\ dx = FDiv(FFromInt(args.L), FFromInt(args.nx - 1))
        /\ dt = FDiv(args.tmax, FFromInt(args.nt - 1))
        /\ pc \in {"loop", "returned"}
        /\ calls = t
        /\ t <= args.nt - 1
        /\ heap[u] = Applied(saved, r, t)
        /\ (pc = "returned") => (t = args.nt - 1 /\ ret = u)

C4_Witness ==
    /\ fn = "heat"
    /\ pc = "returned"
    /\ args.nt = 3
    /\ calls = 2
    /\ heap[ret] # saved
    /\ heap[ret] # heap[2]
    /\ heap[ret] = new_profile(new_profile(saved, CallRatio), CallRatio)

\* C5: when step raises the instability exception inside heat, heat ends with
\* that exception at once: at the first call of step, with no return value, no
\* profile built, and no step after it.
C5_ErrorPropagation ==
    \A r \in {IF fn = "heat" /\ args.nt >= 2 THEN CallRatio ELSE FZero} :
      /\ (fn = "heat" /\ args.nt >= 2 /\ FGt(r, Half)) =>
            \/ (pc = "loop" /\ t = 0 /\ calls = 0 /\ exc = "")
            \/ (pc = "raised" /\ exc = "Exception")
      /\ (fn = "heat" /\ exc = "Exception") =>
            /\ FGt(r, Half)
            /\ pc = "raised"
            /\ ret = None
            /\ calls = 1
            /\ t = 0
            /\ heap = <<saved>>
            /\ ~ENABLED Next

C5_Witness ==
    /\ fn = "heat"
    /\ args.nt = 3
    /\ pc = "raised"
    /\ exc = "Exception"
    /\ calls = 1
    /\ ret = None

\* C6: the list the caller passed holds the values of the copy saved before
\* the call, in every state of a step or heat call and after it, whether it
\* returned or raised.
C6_NoInputMutation == (fn # "none") => heap[1] = saved

C6_Witness ==
    /\ fn = "heat"
    /\ pc = "returned"
    /\ heap[ret] # saved
    /\ heap[1] = saved

\* C7 as stated: heat called with nt = 1 returns the initial profile unchanged.
C7_IdentityAtZeroSteps ==
    (fn = "heat" /\ args.nt = 1) => (pc = "returned" /\ heap[ret] = saved)

\* C7, amended: heat called with nt = 1 raises ZeroDivisionError at
\* dt = tmax / (nt - 1), before any step: nothing is returned, no step is
\* applied, and the caller's profile is unchanged.
C7_ZeroDivisionAtZeroSteps ==
    (fn = "heat" /\ args.nt = 1) =>
        /\ pc = "raised"
        /\ exc = "ZeroDivisionError"
        /\ ret = None
        /\ calls = 0
        /\ heap = <<saved>>
        /\ ~ENABLED Next

C7_Witness ==
    /\ fn = "heat"
    /\ args.nt = 1
    /\ pc = "raised"
    /\ exc = "ZeroDivisionError"

\* C8: a step that returns gives a profile of the length of its input, and
\* every profile of a heat run has the length of the caller's profile.
C8_LengthPreservation ==
    /\ (fn # "none") => \A k \in 1..Len(heap) : Len(heap[k]) = Len(saved)
    /\ (fn = "step" /\ pc = "returned") => Len(heap[ret]) = Len(saved)
    /\ (fn = "heat" /\ pc \in {"loop", "returned"}) => Len(heap[u]) = args.nx
    /\ (fn = "heat" /\ pc = "returned") => Len(heap[ret]) = args.nx

C8_Witness ==
    /\ fn = "heat"
    /\ pc = "returned"
    /\ t = 2
    /\ Len(saved) = 4
    /\ Len(heap) = 3
    /\ Len(heap[ret]) = 4

\* min(p) and max(p)
MinOf(p) == p[CHOOSE i \in 1..Len(p) : \A j \in 1..Len(p) : FLe(p[i], p[j])]

MaxOf(p) == p[CHOOSE i \in 1..Len(p) : \A j \in 1..Len(p) : FLe(p[j], p[i])]

FAbs(a) == [a EXCEPT !.s = 0]

MaxAbs(p) == MaxOf([i \in 1..Len(p) |-> FAbs(p[i])])

\* the interval [MinOf(p), MaxOf(p)], widened on both sides by
\* k * 2^-50 * MaxAbs(p)
RangeOf(p, k) ==
    LET tol == FMul(FRound(0, BFromInt(k), -50, FALSE), MaxAbs(p))
    IN  [lo |-> FSub(MinOf(p), tol), hi |-> FAdd(MaxOf(p), tol)]

\* every node of q lies in RangeOf(p, k)
AllWithin(q, p, k) ==
    \A rg \in {RangeOf(p, k)} :
        \A i \in 1..Len(q) : FLe(rg.lo, q[i]) /\ FLe(q[i], rg.hi)

\* the profiles of the call are heap[1], the caller's, and heap[k + 1], what
\* the k-th application of step returned, whose input was heap[k]
StableCall ==
    /\ fn # "none"
    /\ exc # "ZeroDivisionError"
    /\ \A r \in {CallRatio} : FLe(FZero, r) /\ FLe(r, Half)

\* C10 as stated: with 0 <= r <= 0.5 every interior node step returns lies
\* between the minimum and the maximum of the three nodes it was computed
\* from, and every node of every profile of a heat run lies between the
\* minimum and the maximum of the caller's profile.
C10_MaximumPrinciple ==
    StableCall =>
        \A k \in 1..Len(heap) :
            /\ AllWithin(heap[k], saved, 0)
            /\ k > 1 =>
                  \A i \in 2..(Len(heap[k]) - 1) :
                      AllWithin(<<heap[k][i]>>, SubSeq(heap[k - 1], i - 1, i + 1), 0)

\* C10, amended: the same up to the rounding of the floating-point
\* operations: an interior node lies within 2^-50 times the largest magnitude
\* of the three nodes it was computed from of their range, and a node of the
\* profile after k steps within k * 2^-50 times the largest magnitude of the
\* caller's profile of its range.
C10_MaximumPrincipleRounded ==
    StableCall =>
        \A k \in 1..Len(heap) :
            /\ AllWithin(heap[k], saved, k - 1)
            /\ k > 1 =>
                  \A i \in 2..(Len(heap[k]) - 1) :
                      AllWithin(<<heap[k][i]>>, SubSeq(heap[k - 1], i - 1, i + 1), 1)

\* a run in which rounding takes a node out of the range of the caller's profile
C10_Witness ==
    /\ StableCall
    /\ fn = "heat"
    /\ pc = "returned"
    /\ t = 2
    /\ ~AllWithin(heap[ret], saved, 0)
    /\ AllWithin(heap[ret], saved, 2)

\* C9: for the sine profile on 20 nodes with zero end nodes, nt = 10,
\* alpha = 0.01 and (L, tmax) = (1, 0.5), (2, 0.5), (1, 1), heat returns, and
\* every node of what it returns is within 0.01 of
\* sin(pi*x/L) * exp(-tmax*alpha*(pi/L)^2).
C9_Convergence ==
    (fn = "heat" /\ saved = SineProfile /\ args.nt = 10) =>
        /\ pc \in {"loop", "returned"}
        /\ (pc = "returned") =>
              \A i \in 1..Len(saved) :
                  FLe(FAbs(FSub(heap[ret][i], Analytical(args.L, args.tmax)[i])),
                      FDec(1, 100))

C9_Witness ==
    /\ fn = "heat"
    /\ saved = SineProfile
    /\ args.nt = 10
    /\ args.L = 1
    /\ args.tmax = One
    /\ pc = "returned"
    /\ calls = 9
    /\ heap[ret] # AnalyticalL1T1
    /\ FGt(FSub(saved[10], heap[ret][10]), FDec(5, 100))
====
